---- MODULE Spec2Model ----
(***************************************************************************)
(* bee.lua subprocess: the Lua binding of the child-process engine.        *)
(*                                                                         *)
(* Two revisions of the binding are modelled side by side:                 *)
(*   - src/unnamed/part_000 (udata binding: optional<> wait, detach on     *)
(*     __close/__gc, select, checked peek); its operations keep the        *)
(*     source's names: spawn, wait, kill, is_running, resume, select ...   *)
(*   - src/binding/binding_subprocess.cpp (the earlier binding); its       *)
(*     operations carry the prefix binding_.                               *)
(* The engine behind both (bee::subprocess::process / spawn /              *)
(* process_select) is not part of the sources; only its declarations       *)
(* (src/unnamed/part_001) and its callers are.  The operators process_*    *)
(* and spawn_exec model it from the specification's state machine.         *)
(***************************************************************************)
EXTENDS Integers, Sequences, FiniteSets, TLC

\* ------------------------------------------------------------------ bounds
MaxProcs == 2        \* children spawned in one behaviour
MaxPid   == 2        \* the OS hands out process ids 1..MaxPid
MaxArgs  == 2        \* length of the (unflattened) argument table
MaxSel   == 2        \* length of the table given to select
MaxPipes == 2        \* pipes opened in one behaviour
MaxCalls == 4        \* API calls made in one behaviour
MaxBytes == 2        \* bytes written into one pipe
MaxFd    == 10                \* highest descriptor number pipe::open returns

\* --------------------------------------------------------------- constants
SIGTERM  == 15
NoStatus == 0 - 1                \* std::nullopt / "not yet observed"
Signals   == {9}                 \* signals a caller passes explicitly
ExitCodes == {0, 1}              \* codes a child exits with on its own

Slots == <<"stdin", "stdout", "stderr">>

\* Environment: names, values, and the entries of an env option table: a
\* string value, the boolean false, or no entry for the name ("none").
Names  == {"FOO", "BAZ"}
Values == {"a", "b"}
Absent == ""
NoEnvKV  == [n \in Names |-> "none"]
NoEnvOpt == [tbl |-> FALSE, kv |-> NoEnvKV]      \* no env field in the options
InitEnv  == [n \in Names |-> IF n = "BAZ" THEN "a" ELSE Absent]

\* ------------------------------------------------------------------- state
VARIABLES
    lib,      \* the revision of the binding that is loaded: "lua" (part_000)
              \* or "binding" (binding/binding_subprocess.cpp)
    procs,    \* child k / process handle k: OS side and handle side
    pipes,    \* pipes opened by spawn calls, with the holders of each end
    ret,      \* the call of the Lua API made by the last step (NoRet when the
              \* last step was the system's): inputs, results, OS primitives
    calls,    \* number of API calls made so far
    env       \* the environment of the parent process: name -> value or Absent

vars == <<lib, procs, pipes, ret, calls, env>>

NilObj  == [k |-> "nil",  slot |-> ""]
OptsObj == [k |-> "opts", slot |-> ""]
NoFile  == [k |-> "none", slot |-> ""]          \* file_handle {}
NoFields == [stdin |-> NilObj, stdout |-> NilObj, stderr |-> NilObj]
NoDest   == [stdin |-> NoFile, stdout |-> NoFile, stderr |-> NoFile]
NoTgt    == [k |-> "", i |-> 0]

NoProc == [os |-> "none", pid |-> 0, code |-> NoStatus, pending |-> 0,
           ran |-> FALSE, st |-> "None", status |-> NoStatus, api |-> "",
           gc |-> FALSE, fields |-> NoFields,
           susp |-> FALSE, resumed |-> FALSE, probed |-> FALSE,
           waited |-> NoStatus, env |-> InitEnv, dest |-> NoDest,
           envopt |-> NoEnvOpt]

NoOpts == [args |-> <<>>, stdin |-> "nil", stdout |-> "nil", stderr |-> "nil",
           suspended |-> "nil", detached |-> "nil", env |-> NoEnvOpt]

NoRet == [op |-> "", api |-> "", h |-> 0, kind |-> "none", int |-> 0,
          bool |-> FALSE, os |-> {}, warn |-> 0, opts |-> NoOpts,
          sig |-> 0, pre |-> "", set |-> <<>>, files |-> <<>>,
          tgt |-> NoTgt]

Init ==
    /\ lib \in {"lua", "binding"}
    /\ procs = [k \in 1..MaxProcs |-> NoProc]
    /\ pipes = <<>>
    /\ ret = NoRet
    /\ calls = 0
    /\ env = InitEnv

\* --------------------------------------------------------- the OS / engine
Alive(p)  == p.os \in {"suspended", "running"}
Exists(p) == p.os \in {"suspended", "running", "zombie"}
Exited(p) == p.os \in {"zombie", "gone"}

\* process::wait: the cached status if there is one; a failure once the
\* handle is detached; otherwise blocks (Blocked) until the child is a
\* zombie, then reaps it.
process_wait_blocks(p) ==
    p.status = NoStatus /\ p.st # "Detached" /\ p.os # "zombie"

\* Variant: the status is returned but not kept.
process_wait_forgets(p) ==
    IF p.status # NoStatus THEN [ok |-> TRUE, status |-> p.status, p |-> p]
    ELSE IF p.st = "Detached" THEN [ok |-> FALSE, status |-> NoStatus, p |-> p]
    ELSE [ok |-> TRUE, status |-> p.code,
          p |-> [p EXCEPT !.os = "gone", !.st = "Exited"]]

\* Variant: a detached handle still reaps.
process_wait_reowns(p) ==
    IF p.status # NoStatus THEN [ok |-> TRUE, status |-> p.status, p |-> p]
    ELSE [ok |-> TRUE, status |-> p.code,
          p |-> [p EXCEPT !.status = p.code, !.os = "gone", !.st = "Exited"]]

process_wait(p) ==
    IF p.status # NoStatus THEN [ok |-> TRUE, status |-> p.status, p |-> p]
    ELSE IF p.st = "Detached" THEN [ok |-> FALSE, status |-> NoStatus, p |-> p]
    ELSE [ok |-> TRUE, status |-> p.code,
          p |-> [p EXCEPT !.status = p.code, !.os = "gone", !.st = "Exited"]]

\* process::is_running: a probe of the OS process, nothing else.
process_is_running(p) == [ok |-> Alive(p), p |-> p]

\* process::kill: delivered exactly when the OS still has the process.
process_kill(p, signum) ==
    [ok |-> Exists(p),
     p  |-> IF Alive(p) THEN [p EXCEPT !.pending = signum] ELSE p]

\* process::resume: only a Suspended handle can be resumed, and the OS
\* call may fail.
process_resume(p) ==
    IF p.st = "Suspended"
    THEN {[ok |-> TRUE, p |-> [p EXCEPT !.st = "Running", !.os = "running",
                                        !.ran = TRUE]],
          [ok |-> FALSE, p |-> p]}
    ELSE {[ok |-> FALSE, p |-> p]}

\* process::detach: gives up ownership of a Suspended/Running handle (a
\* zombie is reaped on the way), or fails and leaves everything as it is.
process_detach(p) ==
    IF p.st \in {"Suspended", "Running"}
    THEN {[ok |-> TRUE,
           p  |-> [p EXCEPT !.st = "Detached",
                            !.os = IF p.os = "zombie" THEN "gone" ELSE p.os]],
          [ok |-> FALSE, p |-> p]}
    ELSE {[ok |-> TRUE, p |-> p]}

\* ------------------------------------------------------------ Lua handles
Usable(h) == procs[h].os # "none" /\ ~procs[h].gc
IsLua(h)  == lib = "lua" /\ Usable(h)
IsOld(h)  == lib = "binding" /\ Usable(h)

Call(op, api, h) ==
    [NoRet EXCEPT !.op = op, !.api = api, !.h = h,
                  !.pre = IF h = 0 THEN "" ELSE procs[h].st]
Budget == calls < MaxCalls /\ calls' = calls + 1 /\ lib' = lib

\* process::wait (part_000)
wait(h) ==
    /\ IsLua(h)
    /\ Budget
    /\ ~process_wait_blocks(procs[h])
    /\ LET r == process_wait(procs[h]) IN
       /\ procs' = [procs EXCEPT ![h] =
              [r.p EXCEPT !.waited =
                  IF r.ok /\ @ = NoStatus THEN r.status ELSE @]]
       /\ ret' = IF r.ok
                 THEN [Call("wait", "lua", h) EXCEPT
                          !.kind = "value", !.int = r.status, !.os = {"wait"}]
                 ELSE [Call("wait", "lua", h) EXCEPT
                          !.kind = "nilerr", !.os = {"wait"}]
    /\ UNCHANGED <<pipes, env>>

\* Variant: the default signal is 9.
kill_sigkill(h, sig) ==
    /\ IsLua(h)
    /\ Budget
    /\ LET signum == IF sig = 0 THEN 9 ELSE sig
           r == process_kill(procs[h], signum) IN
       /\ procs' = [procs EXCEPT ![h] = r.p]
       /\ ret' = [Call("kill", "lua", h) EXCEPT
                     !.kind = "value", !.bool = r.ok, !.sig = sig,
                     !.os = {"kill"}]
    /\ UNCHANGED <<pipes, env>>

\* process::kill (part_000)
kill(h, sig) ==
    /\ IsLua(h)
    /\ Budget
    /\ LET signum == IF sig = 0 THEN SIGTERM ELSE sig
           r == process_kill(procs[h], signum) IN
       /\ procs' = [procs EXCEPT ![h] = r.p]
       /\ ret' = [Call("kill", "lua", h) EXCEPT
                     !.kind = "value", !.bool = r.ok, !.sig = sig,
                     !.os = {"kill"}]
    /\ UNCHANGED <<pipes, env>>

\* process::get_id (part_000)
get_id(h) ==
    /\ IsLua(h)
    /\ Budget
    /\ ret' = [Call("get_id", "lua", h) EXCEPT
                  !.kind = "value", !.int = procs[h].pid]
    /\ UNCHANGED <<procs, pipes, env>>

\* Variant: the probe collects the zombie and drops its status.
is_running_reaps(h) ==
    /\ IsLua(h)
    /\ Budget
    /\ procs' = [procs EXCEPT ![h] =
           [@ EXCEPT !.probed = @ \/ procs[h].os = "zombie",
                     !.os = IF @ = "zombie" THEN "gone" ELSE @]]
    /\ ret' = [Call("is_running", "lua", h) EXCEPT
                  !.kind = "value", !.bool = Alive(procs[h]), !.os = {"poll"}]
    /\ UNCHANGED <<pipes, env>>

\* process::is_running (part_000)
is_running(h) ==
    /\ IsLua(h)
    /\ Budget
    /\ LET r == process_is_running(procs[h]) IN
       /\ procs' = [procs EXCEPT ![h] =
              [r.p EXCEPT !.probed = @ \/ procs[h].os = "zombie"]]
       /\ ret' = [Call("is_running", "lua", h) EXCEPT
                     !.kind = "value", !.bool = r.ok, !.os = {"poll"}]
    /\ UNCHANGED <<pipes, env>>

\* Variant: the result of resume() is not passed on.
resume_true(h) ==
    /\ IsLua(h)
    /\ Budget
    /\ \E r \in process_resume(procs[h]) :
       /\ procs' = [procs EXCEPT ![h] = [r.p EXCEPT !.resumed = r.p.susp]]
       /\ ret' = [Call("resume", "lua", h) EXCEPT
                     !.kind = "value", !.bool = TRUE, !.os = {"resume"}]
    /\ UNCHANGED <<pipes, env>>

\* process::resume (part_000)
resume(h) ==
    /\ IsLua(h)
    /\ Budget
    /\ \E r \in process_resume(procs[h]) :
       /\ procs' = [procs EXCEPT ![h] = [r.p EXCEPT !.resumed = r.p.susp]]
       /\ ret' = [Call("resume", "lua", h) EXCEPT
                     !.kind = "value", !.bool = r.ok, !.os = {"resume"}]
    /\ UNCHANGED <<pipes, env>>

\* ------------------------------------------------------------------ spawn
\* Elements of the argument table: a string, a number (unsupported) and an
\* empty nested table.
Elems == {"str", "num", "tbl0"}
Nested(e) == <<>>

RECURSIVE cast_args_array(_, _)
\* cast_args_array (part_000): flattens; an unsupported element raises.
cast_args_array(t, args) ==
    IF t = <<>> THEN [raised |-> FALSE, args |-> args]
    ELSE LET e == Head(t) IN
         IF e \in {"str", "path"}
         THEN cast_args_array(Tail(t), Append(args, e))
         ELSE IF e = "tbl0"
         THEN LET r == cast_args_array(Nested(e), args) IN
              IF r.raised THEN r ELSE cast_args_array(Tail(t), r.args)
         ELSE [raised |-> TRUE, args |-> args]

cast_args(t) == cast_args_array(t, <<>>)

\* Variant: the size check is missing.
args_rejected_never(args) == FALSE

\* args.size() == 0 (part_000)
args_rejected(args) == Len(args) = 0

\* Variant: the suspended option is dropped.
cast_suspended_ignored(v) == FALSE

\* cast_suspended / cast_detached (part_000): only the boolean true counts.
cast_suspended(v) == v = "true"
cast_detached(v)  == v = "true"

\* Variant: an entry that is not a string is skipped.
cast_env_setonly(e) ==
    [n \in Names |->
        IF e.tbl /\ e.kv[n] \in Values THEN e.kv[n] ELSE "none"]

\* cast_env (part_000): the actions handed to the envbuilder, per name: set
\* to the string value of the entry, del for an entry of any other type,
\* nothing ("none") for a name without entry or when env is not a table.
cast_env(e) ==
    [n \in Names |->
        IF ~e.tbl \/ e.kv[n] = "none" THEN "none"
        ELSE IF e.kv[n] \in Values THEN e.kv[n]
        ELSE "del"]

\* envbuilder::release / spawn::env and the creation call: the child gets
\* the parent's environment of that moment with the builder's actions applied.
spawn_env(parent, b) ==
    [n \in Names |->
        IF b[n] = "none" THEN parent[n]
        ELSE IF b[n] = "del" THEN Absent ELSE b[n]]

\* spawn::redirect: the handle each stream of the child is bound to; NoFile
\* leaves the stream on the parent's own stream of that name.
Dest(fs) == [stdin |-> fs[1], stdout |-> fs[2], stderr |-> fs[3]]

\* get_file: the userdata is a bee::file or a LUA_FILEHANDLE.
get_file(val) == val \in {"file", "closed"}

Top(stack) == IF stack = <<>> THEN OptsObj ELSE stack[Len(stack)]
Pop(stack) == IF stack = <<>> THEN <<>> ELSE SubSeq(stack, 1, Len(stack) - 1)
Valid(f)   == f.k # "none"

StdioResult(raised, f, stack, os, pipe) ==
    [raised |-> raised, f |-> f, stack |-> stack, os |-> os, pipe |-> pipe]

\* A pipe: the holders of its two ends, the bytes written so far (log), of
\* these the ones read (got) and the ones still buffered (buf); file tells
\* whether the parent's end was wrapped in a Lua file object, closed whether
\* that object has been closed, peeked whether peek was called on it.
NewPipe(name, hasfile) ==
    [slot |-> name, rd |-> {"parent"}, wr |-> {"parent"}, file |-> hasfile,
     buf |-> <<>>, log |-> <<>>, got |-> <<>>, closed |-> FALSE,
     peeked |-> FALSE]

\* Variant: the ends of a new pipe are handed out the other way round.
pipe_ends_swapped(name) ==
    IF name = "stdin"
    THEN [child |-> "wr", caller |-> "pipe_rd"]
    ELSE [child |-> "rd", caller |-> "pipe_wr"]

\* strcmp(name, "stdin") == 0: the caller gets open_write() and the child
\* pipe.rd; otherwise the caller gets open_read() and the child pipe.wr.
pipe_ends(name) ==
    IF name = "stdin"
    THEN [child |-> "rd", caller |-> "pipe_wr"]
    ELSE [child |-> "wr", caller |-> "pipe_rd"]

\* cast_stdio(L, name, handle) (part_000).  val is the value of the option,
\* io the outcome of the OS step of this slot: "ok", "fail" (pipe::open or
\* dup fails) or "nofile" (the pipe opens, wrapping its end in a FILE fails).
\* stack is the Lua stack above the option table.
cast_stdio(name, val, handle, stack, io) ==
    IF val \in {"file", "closed", "udata"} THEN
        IF ~get_file(val) THEN StdioResult(TRUE, NoFile, stack, {}, <<>>)
        ELSE IF val = "closed" THEN StdioResult(FALSE, NoFile, stack, {}, <<>>)
        ELSE StdioResult(FALSE,
                 IF io = "ok" THEN [k |-> "dup", slot |-> name] ELSE NoFile,
                 Append(stack, [k |-> "file", slot |-> name]), {"dup"}, <<>>)
    ELSE IF val = "true" THEN
        IF io = "fail" THEN StdioResult(FALSE, NoFile, stack, {"pipe"}, <<>>)
        ELSE IF io = "nofile"
        THEN StdioResult(FALSE, NoFile, stack, {"pipe"},
                         <<NewPipe(name, FALSE)>>)
        ELSE StdioResult(FALSE, [k |-> pipe_ends(name).child, slot |-> name],
                 Append(stack, [k |-> pipe_ends(name).caller, slot |-> name]),
                 {"pipe"}, <<NewPipe(name, TRUE)>>)
    ELSE IF val = "stdout" /\ name = "stderr" /\ Valid(handle)
    THEN StdioResult(FALSE, handle, Append(stack, Top(stack)), {}, <<>>)
    ELSE StdioResult(FALSE, NoFile, stack, {}, <<>>)

\* lua_insert(L, -2); lua_setfield(L, -2, name), done when f is valid.
SetField(valid, name, sf) ==
    IF valid
    THEN [stack |-> Pop(sf.stack),
          fields |-> [sf.fields EXCEPT ![name] = Top(sf.stack)]]
    ELSE sf

FreeIdx  == {k \in 1..MaxProcs : procs[k].os = "none"}
NewIdx   == CHOOSE k \in FreeIdx : \A j \in FreeIdx : k <= j
FreePids == {i \in 1..MaxPid : \A k \in 1..MaxProcs :
                 Exists(procs[k]) => procs[k].pid # i}

NumPipes(opts) ==
    Cardinality({i \in 1..3 : opts[Slots[i]] = "true"})

\* Variant: the parent keeps a copy of the end handed to the child.
ChildEnd_keeps(pp, f, ok) ==
    IF f.k = "rd" /\ f.slot = pp.slot
    THEN [pp EXCEPT !.rd = IF ok THEN {"parent", "child"} ELSE {}]
    ELSE IF f.k = "wr" /\ f.slot = pp.slot
    THEN [pp EXCEPT !.wr = IF ok THEN {"parent", "child"} ELSE {}]
    ELSE pp

\* spawn::exec and the process constructor: the child end of each redirected
\* pipe goes to the child on success and is closed on failure; the parent
\* keeps the other end.
ChildEnd(pp, f, ok) ==
    IF f.k = "rd" /\ f.slot = pp.slot
    THEN [pp EXCEPT !.rd = IF ok THEN {"child"} ELSE {}]
    ELSE IF f.k = "wr" /\ f.slot = pp.slot
    THEN [pp EXCEPT !.wr = IF ok THEN {"child"} ELSE {}]
    ELSE pp

\* Variant: a new child inherits every pipe end the parent holds open.
exec_inherits_all(ps, ok) ==
    [i \in 1..Len(ps) |->
        IF ok
        THEN [ps[i] EXCEPT
                 !.rd = IF "parent" \in @ THEN @ \cup {"other"} ELSE @,
                 !.wr = IF "parent" \in @ THEN @ \cup {"other"} ELSE @]
        ELSE ps[i]]

\* The creation call and the pipes of earlier spawns: their ends are not
\* inheritable, the new child gets a copy of none of them.
exec_inherits(ps, ok) == ps

spawn_exec(newpipes, fs, ok) ==
    [i \in 1..Len(newpipes) |->
        ChildEnd(ChildEnd(ChildEnd(newpipes[i], fs[1], ok), fs[2], ok),
                 fs[3], ok)]

NewProc(pid, api, suspended, detached, fields, opts) ==
    [NoProc EXCEPT
        !.os = IF suspended THEN "suspended" ELSE "running",
        !.ran = ~suspended,
        !.pid = pid,
        !.st = IF detached THEN "Detached"
               ELSE IF suspended THEN "Suspended" ELSE "Running",
        !.api = api,
        !.fields = fields,
        !.susp = (opts.suspended = "true"),
        !.envopt = opts.env]

\* spawn::spawn (part_000)
spawn(opts, io, exec_ok, pid) ==
    /\ lib = "lua"
    /\ Budget
    /\ env' = env
    /\ FreeIdx # {}
    /\ Len(pipes) + NumPipes(opts) <= MaxPipes
    /\ IF exec_ok THEN pid \in FreePids ELSE pid = 1
    /\ LET c   == Call("spawn", "lua", 0)
           a   == cast_args(opts.args)
           r1  == cast_stdio("stdin", opts.stdin, NoFile, <<>>, io[1])
           r2  == cast_stdio("stdout", opts.stdout, NoFile, r1.stack, io[2])
           r3  == cast_stdio("stderr", opts.stderr, r2.f, r2.stack, io[3])
           fs  == <<r1.f, r2.f, r3.f>>
           k   == NewIdx
           s1  == SetField(Valid(r3.f), "stderr",
                           [stack |-> r3.stack, fields |-> NoFields])
           s2  == SetField(Valid(r2.f), "stdout", s1)
           s3  == SetField(Valid(r1.f), "stdin", s2)
       IN
       IF a.raised THEN
           /\ ret' = [c EXCEPT !.kind = "raise", !.opts = opts]
           /\ UNCHANGED <<procs, pipes>>
       ELSE IF args_rejected(a.args) THEN
           /\ ret' = [c EXCEPT !.kind = "none", !.opts = opts]
           /\ UNCHANGED <<procs, pipes>>
       ELSE IF r1.raised THEN
           /\ ret' = [c EXCEPT !.kind = "raise", !.opts = opts]
           /\ UNCHANGED <<procs, pipes>>
       ELSE IF r2.raised THEN
           /\ ret' = [c EXCEPT !.kind = "raise", !.opts = opts, !.os = r1.os]
           /\ pipes' = pipes \o r1.pipe
           /\ UNCHANGED procs
       ELSE IF r3.raised THEN
           /\ ret' = [c EXCEPT !.kind = "raise", !.opts = opts,
                               !.os = r1.os \cup r2.os]
           /\ pipes' = pipes \o r1.pipe \o r2.pipe
           /\ UNCHANGED procs
       ELSE
           /\ pipes' = exec_inherits(pipes, exec_ok) \o
                  spawn_exec(r1.pipe \o r2.pipe \o r3.pipe, fs, exec_ok)
           /\ IF exec_ok
              THEN /\ procs' = [procs EXCEPT ![k] =
                         [NewProc(pid, "lua", cast_suspended(opts.suspended),
                                  cast_detached(opts.detached), s3.fields,
                                  opts)
                            EXCEPT !.env = spawn_env(env, cast_env(opts.env)),
                                   !.dest = Dest(fs)]]
                   /\ ret' = [c EXCEPT !.kind = "value", !.h = k,
                                 !.int = pid, !.opts = opts,
                                 !.os = r1.os \cup r2.os \cup r3.os
                                        \cup {"exec"}]
              ELSE /\ ret' = [c EXCEPT !.kind = "nilerr", !.opts = opts,
                                 !.os = r1.os \cup r2.os \cup r3.os
                                        \cup {"exec"}]
                   /\ UNCHANGED procs

\* ------------------------------------------------- teardown (part_000)
\* process_detach(L, process): a failed detach() is a warning with the pid.
detach_warning(ok, p) == IF ok THEN 0 ELSE p.pid

\* mt_close (part_000)
mt_close(h) ==
    /\ IsLua(h)
    /\ Budget
    /\ \E r \in process_detach(procs[h]) :
       /\ procs' = [procs EXCEPT ![h] = r.p]
       /\ ret' = [Call("close", "lua", h) EXCEPT
                     !.kind = "none", !.warn = detach_warning(r.ok, procs[h]),
                     !.bool = r.ok, !.os = {"detach"}]
    /\ UNCHANGED <<pipes, env>>

\* The handle after ~process(): only the OS side of the child remains.
Destroyed(p) ==
    [p EXCEPT !.gc = TRUE, !.status = NoStatus, !.waited = NoStatus,
              !.probed = FALSE, !.fields = NoFields]

\* Variant: a failed detach ends the finalizer before the handle is destroyed.
mt_gc_early(h) ==
    /\ IsLua(h)
    /\ Budget
    /\ \E r \in process_detach(procs[h]) :
       /\ procs' = [procs EXCEPT ![h] = IF r.ok THEN Destroyed(r.p) ELSE r.p]
       /\ ret' = [Call("gc", "lua", h) EXCEPT
                     !.kind = "none", !.warn = detach_warning(r.ok, procs[h]),
                     !.bool = r.ok, !.os = {"detach"}]
    /\ UNCHANGED <<pipes, env>>

\* mt_gc (part_000)
mt_gc(h) ==
    /\ IsLua(h)
    /\ Budget
    /\ \E r \in process_detach(procs[h]) :
       /\ procs' = [procs EXCEPT ![h] = Destroyed(r.p)]
       /\ ret' = [Call("gc", "lua", h) EXCEPT
                     !.kind = "none", !.warn = detach_warning(r.ok, procs[h]),
                     !.bool = r.ok, !.os = {"detach"}]
    /\ UNCHANGED <<pipes, env>>

\* ------------------------------------------------------ select (part_000)
\* process_select: fails at once on an empty set or on a handle that no
\* longer owns a process; otherwise blocks until a member has exited.
process_select_blocks(ps) ==
    /\ ps # {}
    /\ \A p \in ps : p.st # "Detached"
    /\ \A p \in ps : ~Exited(p)

process_select(ps) ==
    ps # {} /\ (\A p \in ps : p.st # "Detached") /\ (\E p \in ps : Exited(p))

\* The tables given to select: handles, and 0 for any other value; of the
\* tables that differ in order or repetition only, the increasing one.
SelTables ==
    {t \in UNION {[1..n -> 0..MaxProcs] : n \in 0..MaxSel} :
        \A i \in 1..Len(t), j \in 1..Len(t) : i < j => t[i] < t[j]}
\* Variant: the last element of the table is left out of the set.
SelMembers_short(t) == {procs[t[i]] : i \in 1..(Len(t) - 1)}
SelMembers(t) == {procs[t[i]] : i \in 1..Len(t)}
SelChecked(t) == \A i \in 1..Len(t) : t[i] # 0

\* Variant: select collects the members that have exited.
select_reaps(t) ==
    /\ lib = "lua"
    /\ \A i \in 1..Len(t) : t[i] # 0 => Usable(t[i])
    /\ Budget
    /\ IF ~SelChecked(t)
       THEN /\ ret' = [Call("select", "lua", 0) EXCEPT
                          !.kind = "raise", !.set = t]
            /\ UNCHANGED procs
       ELSE /\ ~process_select_blocks(SelMembers(t))
            /\ ret' = [Call("select", "lua", 0) EXCEPT
                          !.kind = "value", !.set = t, !.os = {"select"},
                          !.bool = process_select(SelMembers(t))]
            /\ procs' = [h \in 1..MaxProcs |->
                   IF (\E i \in 1..Len(t) : t[i] = h) /\ procs[h].os = "zombie"
                   THEN [procs[h] EXCEPT !.os = "gone"] ELSE procs[h]]
    /\ UNCHANGED <<pipes, env>>

\* Variant: the result of process_select is not passed on.
select_true(t) ==
    /\ lib = "lua"
    /\ \A i \in 1..Len(t) : t[i] # 0 => Usable(t[i])
    /\ Budget
    /\ IF ~SelChecked(t)
       THEN ret' = [Call("select", "lua", 0) EXCEPT !.kind = "raise", !.set = t]
       ELSE /\ ~process_select_blocks(SelMembers(t))
            /\ ret' = [Call("select", "lua", 0) EXCEPT
                          !.kind = "value", !.set = t, !.os = {"select"},
                          !.bool = TRUE]
    /\ UNCHANGED <<procs, pipes, env>>

\* select (part_000)
select(t) ==
    /\ lib = "lua"
    /\ \A i \in 1..Len(t) : t[i] # 0 => Usable(t[i])
    /\ Budget
    /\ IF ~SelChecked(t)
       THEN ret' = [Call("select", "lua", 0) EXCEPT !.kind = "raise", !.set = t]
       ELSE /\ ~process_select_blocks(SelMembers(t))
            /\ ret' = [Call("select", "lua", 0) EXCEPT
                          !.kind = "value", !.set = t, !.os = {"select"},
                          !.bool = process_select(SelMembers(t))]
    /\ UNCHANGED <<procs, pipes, env>>

\* --------------------------------------- binding/binding_subprocess.cpp
RECURSIVE binding_cast_args(_, _)
\* cast_args: strings are taken, tables flattened, anything else skipped.
binding_cast_args(t, args) ==
    IF t = <<>> THEN args
    ELSE LET e == Head(t) IN
         IF e = "str" THEN binding_cast_args(Tail(t), Append(args, e))
         ELSE IF e = "tbl0"
         THEN binding_cast_args(Tail(t), binding_cast_args(Nested(e), args))
         ELSE binding_cast_args(Tail(t), args)

\* cast_suspended (binding_subprocess.cpp)
binding_cast_suspended(v) == v = "true"

\* cast_env (binding_subprocess.cpp): with an env table on top of the stack,
\* lua_next(L, 1) takes that table as a key of the option table, which it is
\* not: "invalid key to 'next'" is raised.  Without a table nothing is done.
binding_cast_env(e) == e.tbl

\* args.size() <= 1
binding_args_rejected(args) == Len(args) <= 1

\* cast_stdio(L, name): the stream itself is handed over, a pipe is a pair
\* of FILE*; there is no alias and no duplication.
binding_cast_stdio(name, val, stack, io) ==
    IF val \in {"file", "closed", "udata"} THEN
        IF val = "udata" THEN StdioResult(TRUE, NoFile, stack, {}, <<>>)
        ELSE StdioResult(FALSE, [k |-> "file", slot |-> name],
                 Append(stack, [k |-> "file", slot |-> name]), {}, <<>>)
    ELSE IF val = "true" THEN
        IF io # "ok" THEN StdioResult(FALSE, NoFile, stack, {"pipe"}, <<>>)
        ELSE StdioResult(FALSE, [k |-> pipe_ends(name).child, slot |-> name],
                 Append(stack, [k |-> pipe_ends(name).caller, slot |-> name]),
                 {"pipe"}, <<NewPipe(name, TRUE)>>)
    ELSE StdioResult(FALSE, NoFile, stack, {}, <<>>)

\* spawn::spawn (binding_subprocess.cpp)
binding_spawn(opts, io, exec_ok, pid) ==
    /\ lib = "binding"
    /\ Budget
    /\ env' = env
    /\ FreeIdx # {}
    /\ Len(pipes) + NumPipes(opts) <= MaxPipes
    /\ IF exec_ok THEN pid \in FreePids ELSE pid = 1
    /\ LET c   == Call("spawn", "binding", 0)
           a   == binding_cast_args(opts.args, <<>>)
           r1  == binding_cast_stdio("stdin", opts.stdin, <<>>, io[1])
           r2  == binding_cast_stdio("stdout", opts.stdout, r1.stack, io[2])
           r3  == binding_cast_stdio("stderr", opts.stderr, r2.stack, io[3])
           fs  == <<r1.f, r2.f, r3.f>>
           k   == NewIdx
       IN
       IF binding_args_rejected(a) THEN
           /\ ret' = [c EXCEPT !.kind = "none", !.opts = opts]
           /\ UNCHANGED <<procs, pipes>>
       ELSE IF binding_cast_env(opts.env) THEN
           /\ ret' = [c EXCEPT !.kind = "raise", !.opts = opts]
           /\ UNCHANGED <<procs, pipes>>
       ELSE IF r1.raised THEN
           /\ ret' = [c EXCEPT !.kind = "raise", !.opts = opts]
           /\ UNCHANGED <<procs, pipes>>
       ELSE IF r2.raised THEN
           /\ ret' = [c EXCEPT !.kind = "raise", !.opts = opts, !.os = r1.os]
           /\ pipes' = pipes \o r1.pipe
           /\ UNCHANGED procs
       ELSE IF r3.raised THEN
           /\ ret' = [c EXCEPT !.kind = "raise", !.opts = opts,
                               !.os = r1.os \cup r2.os]
           /\ pipes' = pipes \o r1.pipe \o r2.pipe
           /\ UNCHANGED procs
       ELSE
           /\ pipes' = exec_inherits(pipes, exec_ok) \o
                  spawn_exec(r1.pipe \o r2.pipe \o r3.pipe, fs, exec_ok)
           /\ IF exec_ok
              THEN /\ procs' = [procs EXCEPT ![k] =
                         [NewProc(pid, "binding",
                                  binding_cast_suspended(opts.suspended),
                                  FALSE, NoFields, opts)
                            EXCEPT !.env = spawn_env(env, NoEnvKV),
                                   !.dest = Dest(fs)]]
                   /\ ret' = [c EXCEPT !.kind = "value", !.h = k,
                                 !.int = pid, !.opts = opts,
                                 !.files = r3.stack,
                                 !.os = r1.os \cup r2.os \cup r3.os
                                        \cup {"exec"}]
              ELSE /\ ret' = [c EXCEPT !.kind = "none", !.opts = opts,
                                 !.os = r1.os \cup r2.os \cup r3.os
                                        \cup {"exec"}]
                   /\ UNCHANGED procs

\* process::wait (binding_subprocess.cpp)
binding_wait(h) ==
    /\ IsOld(h)
    /\ Budget
    /\ ~process_wait_blocks(procs[h])
    /\ LET r == process_wait(procs[h]) IN
       /\ procs' = [procs EXCEPT ![h] =
              [r.p EXCEPT !.waited =
                  IF r.ok /\ @ = NoStatus THEN r.status ELSE @]]
       /\ ret' = [Call("wait", "binding", h) EXCEPT
                     !.kind = "value", !.int = r.status, !.os = {"wait"}]
    /\ UNCHANGED <<pipes, env>>

\* process::kill (binding_subprocess.cpp)
binding_kill(h, sig) ==
    /\ IsOld(h)
    /\ Budget
    /\ LET signum == IF sig = 0 THEN 15 ELSE sig
           r == process_kill(procs[h], signum) IN
       /\ procs' = [procs EXCEPT ![h] = r.p]
       /\ ret' = [Call("kill", "binding", h) EXCEPT
                     !.kind = "value", !.bool = r.ok, !.sig = sig,
                     !.os = {"kill"}]
    /\ UNCHANGED <<pipes, env>>

\* process::get_id (binding_subprocess.cpp)
binding_get_id(h) ==
    /\ IsOld(h)
    /\ Budget
    /\ ret' = [Call("get_id", "binding", h) EXCEPT
                  !.kind = "value", !.int = procs[h].pid]
    /\ UNCHANGED <<procs, pipes, env>>

\* process::is_running (binding_subprocess.cpp)
binding_is_running(h) ==
    /\ IsOld(h)
    /\ Budget
    /\ LET r == process_is_running(procs[h]) IN
       /\ procs' = [procs EXCEPT ![h] =
              [r.p EXCEPT !.probed = @ \/ procs[h].os = "zombie"]]
       /\ ret' = [Call("is_running", "binding", h) EXCEPT
                     !.kind = "value", !.bool = r.ok, !.os = {"poll"}]
    /\ UNCHANGED <<pipes, env>>

\* process::resume (binding_subprocess.cpp)
binding_resume(h) ==
    /\ IsOld(h)
    /\ Budget
    /\ \E r \in process_resume(procs[h]) :
       /\ procs' = [procs EXCEPT ![h] = [r.p EXCEPT !.resumed = r.p.susp]]
       /\ ret' = [Call("resume", "binding", h) EXCEPT
                     !.kind = "value", !.bool = r.ok, !.os = {"resume"}]
    /\ UNCHANGED <<pipes, env>>

\* process::destructor (binding_subprocess.cpp), the __gc of the handle
destructor(h) ==
    /\ IsOld(h)
    /\ Budget
    /\ procs' = [procs EXCEPT ![h] = Destroyed(procs[h])]
    /\ ret' = [Call("gc", "binding", h) EXCEPT !.kind = "none"]
    /\ UNCHANGED <<pipes, env>>

\* ---------------------------------------------------------------- setenv
\* Variant: the children already spawned follow the parent's environment.
lsetenv_live(name, value, ok) ==
    /\ lib = "lua"
    /\ Budget
    /\ IF ok
       THEN /\ env' = [env EXCEPT ![name] = value]
            /\ ret' = [Call("setenv", "lua", 0) EXCEPT
                          !.kind = "value", !.bool = TRUE, !.os = {"setenv"}]
            /\ procs' = [k \in 1..MaxProcs |->
                            [procs[k] EXCEPT !.env[name] = value]]
       ELSE /\ env' = env
            /\ ret' = [Call("setenv", "lua", 0) EXCEPT
                          !.kind = "nilerr", !.os = {"setenv"}]
            /\ procs' = procs
    /\ UNCHANGED pipes

\* lsetenv (part_000): ::setenv(name, value, 1) on the parent itself; true,
\* or nil and a message when the call fails.
lsetenv(name, value, ok) ==
    /\ lib = "lua"
    /\ Budget
    /\ IF ok
       THEN /\ env' = [env EXCEPT ![name] = value]
            /\ ret' = [Call("setenv", "lua", 0) EXCEPT
                          !.kind = "value", !.bool = TRUE, !.os = {"setenv"}]
       ELSE /\ env' = env
            /\ ret' = [Call("setenv", "lua", 0) EXCEPT
                          !.kind = "nilerr", !.os = {"setenv"}]
    /\ UNCHANGED <<procs, pipes>>

\* ---------------------------------------------------------- pipes and peek
\* The values peek is called with: the parent's file object of pipe i, an
\* ordinary file that is no pipe, a userdata that is no file.
PeekTargets ==
    {[k |-> "pipe", i |-> i] : i \in 1..Len(pipes)}
        \cup {[k |-> "regular", i |-> 0], [k |-> "udata", i |-> 0]}
IsPipeFile(tgt) == tgt.k = "pipe" /\ pipes[tgt.i].file
Closed(tgt)     == tgt.k = "pipe" /\ pipes[tgt.i].closed
Readable(tgt)   == tgt.k = "pipe" /\ pipes[tgt.i].slot # "stdin"

\* pipe::peek: the number of buffered bytes of a readable pipe end, a
\* negative value for anything else.
pipe_peek(tgt) ==
    IF Readable(tgt) THEN Len(pipes[tgt.i].buf) ELSE 0 - 1

Peeked(tgt) ==
    IF tgt.k = "pipe"
    THEN [pipes EXCEPT ![tgt.i].peeked = TRUE]
    ELSE pipes

\* Variant: the buffered bytes are read to be counted.
peek_consumes(tgt) ==
    /\ lib = "lua"
    /\ tgt.k = "pipe" => IsPipeFile(tgt)
    /\ Budget
    /\ LET c == [Call("peek", "lua", 0) EXCEPT !.tgt = tgt]
           n == pipe_peek(tgt) IN
       IF tgt.k = "udata"
       THEN ret' = [c EXCEPT !.kind = "raise"] /\ pipes' = pipes
       ELSE IF Closed(tgt)
       THEN ret' = [c EXCEPT !.kind = "nilerr"] /\ pipes' = Peeked(tgt)
       ELSE IF n < 0
       THEN ret' = [c EXCEPT !.kind = "nilerr", !.os = {"peek"}]
            /\ pipes' = Peeked(tgt)
       ELSE ret' = [c EXCEPT !.kind = "value", !.int = n, !.os = {"peek"}]
            /\ pipes' = [Peeked(tgt) EXCEPT ![tgt.i].buf = <<>>]
    /\ UNCHANGED <<procs, env>>

\* Variant: a count of zero is taken for a failure.
peek_zero_error(tgt) ==
    /\ lib = "lua"
    /\ tgt.k = "pipe" => IsPipeFile(tgt)
    /\ Budget
    /\ LET c == [Call("peek", "lua", 0) EXCEPT !.tgt = tgt]
           n == pipe_peek(tgt) IN
       IF tgt.k = "udata"
       THEN ret' = [c EXCEPT !.kind = "raise"] /\ pipes' = pipes
       ELSE IF Closed(tgt)
       THEN ret' = [c EXCEPT !.kind = "nilerr"] /\ pipes' = Peeked(tgt)
       ELSE IF n <= 0
       THEN ret' = [c EXCEPT !.kind = "nilerr", !.os = {"peek"}]
            /\ pipes' = Peeked(tgt)
       ELSE ret' = [c EXCEPT !.kind = "value", !.int = n, !.os = {"peek"}]
            /\ pipes' = Peeked(tgt)
    /\ UNCHANGED <<procs, env>>

\* peek (part_000): get_file raises on a value that is no file; a closed
\* stream and a negative result of pipe::peek give nil and a message.
peek(tgt) ==
    /\ lib = "lua"
    /\ tgt.k = "pipe" => IsPipeFile(tgt)
    /\ Budget
    /\ LET c == [Call("peek", "lua", 0) EXCEPT !.tgt = tgt]
           n == pipe_peek(tgt) IN
       IF tgt.k = "udata"
       THEN ret' = [c EXCEPT !.kind = "raise"] /\ pipes' = pipes
       ELSE IF Closed(tgt)
       THEN ret' = [c EXCEPT !.kind = "nilerr"] /\ pipes' = Peeked(tgt)
       ELSE IF n < 0
       THEN ret' = [c EXCEPT !.kind = "nilerr", !.os = {"peek"}]
            /\ pipes' = Peeked(tgt)
       ELSE ret' = [c EXCEPT !.kind = "value", !.int = n, !.os = {"peek"}]
            /\ pipes' = Peeked(tgt)
    /\ UNCHANGED <<procs, env>>

\* What pipe::peek makes of the FILE* of a closed stream: the pointer is
\* dangling, any count or the failure value may come back.
DanglingPeek == {0 - 1, 0, 1}

\* peek (binding_subprocess.cpp): luaL_checkudata raises on a value that is
\* no file; the result of pipe::peek on p->f is pushed as it is.
binding_peek(tgt, n) ==
    /\ lib = "binding"
    /\ tgt.k = "pipe" => IsPipeFile(tgt)
    /\ Budget
    /\ IF tgt.k # "udata" /\ Closed(tgt)
       THEN n \in DanglingPeek ELSE n = pipe_peek(tgt)
    /\ LET c == [Call("peek", "binding", 0) EXCEPT !.tgt = tgt] IN
       IF tgt.k = "udata"
       THEN ret' = [c EXCEPT !.kind = "raise"] /\ pipes' = pipes
       ELSE ret' = [c EXCEPT !.kind = "value", !.int = n, !.os = {"peek"}]
            /\ pipes' = Peeked(tgt)
    /\ UNCHANGED <<procs, env>>

\* Reading from the parent's file object of a pipe i whose read end the
\* parent holds: blocks while the pipe is empty and a writer is left.
read_blocks(pp) == pp.buf = <<>> /\ pp.wr # {}

Min(a, b) == IF a < b THEN a ELSE b

\* f:read(n) of the host runtime on the file object of pipe i: up to n
\* buffered bytes in order, or end-of-file when none is left and no writer.
file_read(i, n) ==
    /\ i \in 1..Len(pipes)
    /\ pipes[i].file /\ ~pipes[i].closed /\ pipes[i].slot # "stdin"
    /\ Budget
    /\ ~read_blocks(pipes[i])
    /\ LET pp == pipes[i]
           m  == Min(n, Len(pp.buf))
           c  == [Call("read", lib, 0) EXCEPT !.tgt = [k |-> "pipe", i |-> i]]
       IN
       IF pp.buf = <<>>
       THEN ret' = [c EXCEPT !.kind = "eof"] /\ pipes' = pipes
       ELSE /\ ret' = [c EXCEPT !.kind = "value", !.set = SubSeq(pp.buf, 1, m)]
            /\ pipes' = [pipes EXCEPT
                   ![i].buf = SubSeq(pp.buf, m + 1, Len(pp.buf)),
                   ![i].got = pp.got \o SubSeq(pp.buf, 1, m)]
    /\ UNCHANGED <<procs, env>>

\* f:close() of the host runtime on the file object of pipe i: the stream is
\* marked closed (closef = NULL) and the parent's end of the pipe is released.
file_close(i) ==
    /\ i \in 1..Len(pipes)
    /\ pipes[i].file /\ ~pipes[i].closed
    /\ Budget
    /\ ret' = [Call("close_file", lib, 0) EXCEPT
                  !.tgt = [k |-> "pipe", i |-> i]]
    /\ pipes' = [pipes EXCEPT
           ![i].closed = TRUE,
           ![i].rd = IF pipes[i].slot # "stdin" THEN @ \ {"parent"} ELSE @,
           ![i].wr = IF pipes[i].slot = "stdin" THEN @ \ {"parent"} ELSE @]
    /\ UNCHANGED <<procs, env>>

\* The child writes its next byte into the pipe bound to its output; the
\* k-th byte written into a pipe is k.
ChildWrite(i) ==
    /\ i \in 1..Len(pipes)
    /\ "child" \in pipes[i].wr
    /\ Len(pipes[i].log) < MaxBytes
    /\ LET b == Len(pipes[i].log) + 1 IN
       pipes' = [pipes EXCEPT ![i].buf = Append(@, b),
                              ![i].log = Append(@, b)]
    /\ ret' = NoRet
    /\ UNCHANGED <<lib, procs, calls, env>>

\* The child closes its end of pipe i, as it does when it exits.
ChildClose(i) ==
    /\ i \in 1..Len(pipes)
    /\ "child" \in (pipes[i].rd \cup pipes[i].wr)
    /\ pipes' = [pipes EXCEPT ![i].rd = @ \ {"child"},
                              ![i].wr = @ \ {"child"}]
    /\ ret' = NoRet
    /\ UNCHANGED <<lib, procs, calls, env>>

\* ------------------------------------------------------------ environment
\* A running child terminates: on its own with an exit code, or by the
\* signal pending on it.
ChildExit(k, c) ==
    /\ procs[k].os = "running"
    /\ \/ c \in ExitCodes
       \/ procs[k].pending # 0 /\ c = procs[k].pending * 256
    /\ procs' = [procs EXCEPT ![k].os = "zombie", ![k].code = c,
                              ![k].pending = 0]
    /\ ret' = NoRet
    /\ UNCHANGED <<lib, pipes, calls, env>>

\* The zombie of a detached child is collected by the system.
OSReap(k) ==
    /\ procs[k].os = "zombie"
    /\ procs[k].st = "Detached"
    /\ procs' = [procs EXCEPT ![k].os = "gone"]
    /\ ret' = NoRet
    /\ UNCHANGED <<lib, pipes, calls, env>>

\* ------------------------------------------------------------------ inputs
ArgTables == UNION {[1..n -> Elems] : n \in 0..MaxArgs}
AllOk     == <<"ok", "ok", "ok">>
AllFail   == <<"fail", "fail", "fail">>
StatusCodes == ExitCodes \cup {s * 256 : s \in Signals \cup {SIGTERM}}

\* Options of the lifecycle specification: every stream inherits.
LifeOpts ==
    [args : {<<"str", "str">>}, stdin : {"nil"}, stdout : {"nil"},
     stderr : {"nil"}, suspended : {"nil", "true"}, detached : {"nil", "true"},
     env : {NoEnvOpt}]

\* Options of the creation specification.
Inherit == [NoOpts EXCEPT !.args = <<"str">>]
Piped   == [Inherit EXCEPT !.stdin = "true", !.stdout = "file",
                           !.stderr = "stdout"]
SpawnOpts ==
    {[Inherit EXCEPT !.args = a] : a \in ArgTables}
        \cup {[Piped EXCEPT !.args = a] :
                 a \in {<<>>, <<"tbl0">>, <<"str">>, <<"str", "str">>}}

\* The OS hands out the lowest free id.
LowPid ==
    IF FreePids = {} THEN 1
    ELSE CHOOSE i \in FreePids : \A j \in FreePids : i <= j

Environment ==
    \/ \E k \in 1..MaxProcs, c \in StatusCodes : ChildExit(k, c)
    \/ \E k \in 1..MaxProcs : OSReap(k)

Next ==
    \/ \E o \in LifeOpts : spawn(o, AllOk, TRUE, LowPid)
    \/ \E o \in LifeOpts : binding_spawn(o, AllOk, TRUE, LowPid)
    \/ \E h \in 1..MaxProcs : wait(h)
    \/ \E h \in 1..MaxProcs, s \in Signals \cup {0} : kill(h, s)
    \/ \E h \in 1..MaxProcs : is_running(h)
    \/ \E h \in 1..MaxProcs : resume(h)
    \/ \E h \in 1..MaxProcs : mt_close(h)
    \/ \E h \in 1..MaxProcs : mt_gc(h)
    \/ \E t \in SelTables : select(t)
    \/ \E h \in 1..MaxProcs : binding_wait(h)
    \/ \E h \in 1..MaxProcs, s \in Signals \cup {0} : binding_kill(h, s)
    \/ \E h \in 1..MaxProcs : binding_is_running(h)
    \/ \E h \in 1..MaxProcs : binding_resume(h)
    \/ \E h \in 1..MaxProcs : destructor(h)
    \/ Environment

Spec == Init /\ [][Next]_vars

NextSpawn ==
    \/ \E o \in SpawnOpts, e \in BOOLEAN : spawn(o, AllOk, e, LowPid)
    \/ \E o \in SpawnOpts, e \in BOOLEAN : binding_spawn(o, AllOk, e, LowPid)
    \/ \E h \in 1..MaxProcs : wait(h)
    \/ \E h \in 1..MaxProcs : binding_wait(h)
    \/ \E h \in 1..MaxProcs : get_id(h)
    \/ \E h \in 1..MaxProcs : binding_get_id(h)
    \/ \E k \in 1..MaxProcs, c \in StatusCodes : ChildExit(k, c)

SpecSpawn == Init /\ [][NextSpawn]_vars

\* Options of the pipe specification: one stream is a new pipe.
PipeOpts ==
    {[NoOpts EXCEPT !.args = <<"str", "str">>, ![s] = "true"] :
        s \in {"stdin", "stdout"}}

NextPipe ==
    \/ \E o \in PipeOpts, e \in BOOLEAN : spawn(o, AllOk, e, LowPid)
    \/ \E o \in PipeOpts, e \in BOOLEAN : binding_spawn(o, AllOk, e, LowPid)
    \/ \E t \in PeekTargets : peek(t)
    \/ \E t \in PeekTargets, n \in DanglingPeek \cup 0..MaxBytes :
          binding_peek(t, n)
    \/ \E i \in 1..MaxPipes, n \in 1..MaxBytes : file_read(i, n)
    \/ \E i \in 1..MaxPipes : file_close(i)
    \/ \E i \in 1..MaxPipes : ChildWrite(i)
    \/ \E i \in 1..MaxPipes : ChildClose(i)

SpecPipe == Init /\ [][NextPipe]_vars

\* Options of the end-of-file specification: one stream is a new pipe, or
\* stdout is one and stderr its alias.
EofOpts ==
    {[NoOpts EXCEPT !.args = <<"str", "str">>, ![s] = "true"] :
        s \in {"stdin", "stdout", "stderr"}}
      \cup {[NoOpts EXCEPT !.args = <<"str", "str">>, !.stdout = "true",
                           !.stderr = "stdout"]}

NextEof ==
    \/ \E o \in EofOpts, e \in BOOLEAN : spawn(o, AllOk, e, LowPid)
    \/ \E o \in EofOpts, e \in BOOLEAN : binding_spawn(o, AllOk, e, LowPid)
    \/ \E i \in 1..MaxPipes, n \in {1, MaxBytes} : file_read(i, n)
    \/ \E i \in 1..MaxPipes : ChildWrite(i)
    \/ \E i \in 1..MaxPipes : ChildClose(i)

SpecEof == Init /\ [][NextEof]_vars

\* ------------------------------------------------------------ pipe::open
\* pipe::open(): a created pipe is a pair of distinct open descriptors, any
\* the parent has free (0 when its standard input is closed); a pipe that
\* could not be created is the pair {0, 0}.
PipeFailed  == <<0, 0>>
PipeCreated == {r \in (0..MaxFd) \X (0..MaxFd) : r[1] # r[2]}

\* open_result::operator bool: return rd && wr.
open_result_bool(r) == r[1] # 0 /\ r[2] # 0

\* auto pipe = subprocess::pipe::open(); if (!pipe) break;
pipe_open(r, created) ==
    /\ Budget
    /\ r \in IF created THEN PipeCreated ELSE {PipeFailed}
    /\ ret' = [Call("open", lib, 0) EXCEPT
                  !.set = r, !.bool = open_result_bool(r),
                  !.os = IF created THEN {"pipe"} ELSE {}]
    /\ UNCHANGED <<procs, pipes, env>>

NextOpen ==
    \E r \in PipeCreated \cup {PipeFailed}, created \in BOOLEAN :
        pipe_open(r, created)

SpecOpen == Init /\ [][NextOpen]_vars

\* Options of the inheritance specification: stdout is a new pipe, or every
\* stream inherits.
InheritOpts ==
    {[NoOpts EXCEPT !.args = <<"str", "str">>, !.stdout = o] :
        o \in {"nil", "true"}}

NextInherit ==
    \/ \E o \in InheritOpts, e \in BOOLEAN : spawn(o, AllOk, e, LowPid)
    \/ \E o \in InheritOpts, e \in BOOLEAN :
          binding_spawn(o, AllOk, e, LowPid)
    \/ \E i \in 1..MaxPipes : file_read(i, MaxBytes)
    \/ \E i \in 1..MaxPipes : ChildWrite(i)
    \/ \E i \in 1..MaxPipes : ChildClose(i)
    \/ \E k \in 1..MaxProcs : ChildExit(k, 0)

SpecInherit == Init /\ [][NextInherit]_vars

\* Options of the environment specification: no env field, or a table with,
\* for each name, no entry, the value false or a string.
EnvTables == [Names -> {"none", "false", "num", "b"}]
EnvOpts ==
    {[NoOpts EXCEPT !.args = <<"str", "str">>, !.env = e] :
        e \in {NoEnvOpt} \cup {[tbl |-> TRUE, kv |-> t] : t \in EnvTables}}

NextEnv ==
    \/ \E o \in EnvOpts : spawn(o, AllOk, TRUE, LowPid)
    \/ \E o \in EnvOpts : binding_spawn(o, AllOk, TRUE, LowPid)
    \/ \E n \in Names, v \in Values, ok \in BOOLEAN : lsetenv(n, v, ok)

SpecEnv == Init /\ [][NextEnv]_vars

\* Options of the stream specification: every way of configuring the three
\* streams that the bindings tell apart, and the OS steps failing or not.
StdioOpts ==
    {[NoOpts EXCEPT !.args = <<"str", "str">>,
                    !.stdin = i, !.stdout = o, !.stderr = e] :
        i \in {"nil", "true"}, o \in {"nil", "true", "file"},
        e \in {"nil", "true", "stdout"}}
      \cup {[NoOpts EXCEPT !.args = <<"str", "num">>, !.stdin = "true"],
            [NoOpts EXCEPT !.args = <<"str", "str">>, !.stdin = "udata"],
            [NoOpts EXCEPT !.args = <<"str", "str">>, !.stdin = "true",
                           !.stdout = "udata"],
            [NoOpts EXCEPT !.args = <<"str", "str">>, !.stdout = "file",
                           !.stderr = "udata"]}
StdioIO == {AllOk, <<"ok", "fail", "ok">>}

NextStdio ==
    \/ \E o \in StdioOpts, io \in StdioIO, e \in BOOLEAN :
          spawn(o, io, e, LowPid)
    \/ \E o \in StdioOpts, io \in StdioIO, e \in BOOLEAN :
          binding_spawn(o, io, e, LowPid)
    \/ \E i \in 1..MaxPipes : file_close(i)
    \/ \E i \in 1..MaxPipes : ChildClose(i)

SpecStdio == Init /\ [][NextStdio]_vars

\* Options of the direction specification: each slot inherits or is a new
\* pipe, stderr may name stdout.
DirOpts ==
    {[NoOpts EXCEPT !.args = <<"str", "str">>,
                    !.stdin = i, !.stdout = o, !.stderr = e] :
        i \in {"nil", "true"}, o \in {"nil", "true"},
        e \in {"nil", "true", "stdout"}}

NextDir ==
    \/ \E o \in DirOpts, io \in StdioIO, e \in BOOLEAN :
          spawn(o, io, e, LowPid)
    \/ \E o \in DirOpts, io \in StdioIO, e \in BOOLEAN :
          binding_spawn(o, io, e, LowPid)
    \/ \E i \in 1..MaxPipes : ChildClose(i)

SpecDir == Init /\ [][NextDir]_vars

\* ==================================================================== claims
IsCall(op) == calls' = calls + 1 /\ ret'.op = op

\* The argument table holds no string at any depth (an empty list).
EmptyArgs(t) == \A i \in 1..Len(t) : t[i] = "tbl0"
\* The argument table holds only strings and tables, and one string at least.
ListedArgs(t) ==
    /\ \A i \in 1..Len(t) : t[i] # "num"
    /\ \E i \in 1..Len(t) : t[i] = "str"
AllInherit(o) == o.stdin = "nil" /\ o.stdout = "nil" /\ o.stderr = "nil"

\* C1: spawn with an empty argument list fails before anything is allocated:
\* it returns nothing, invokes no OS primitive (no exec, no pipe, no dup) and
\* leaves the children and the pipes as they were.
C1_EmptyArgsFailClean ==
    [][(IsCall("spawn") /\ EmptyArgs(ret'.opts.args))
          => /\ ret'.kind = "none"
             /\ ret'.os = {}
             /\ procs' = procs
             /\ pipes' = pipes]_vars

\* An empty list was given together with a request for a pipe, while a child
\* of an earlier spawn is alive.
C1_Witness ==
    /\ ret.op = "spawn"
    /\ ret.opts.args = <<"tbl0">>
    /\ lib = "lua"
    /\ ret.opts.stdin = "true"
    /\ ret.kind = "none"
    /\ \E k \in 1..MaxProcs : Alive(procs[k])

\* C2: for every argument list of length >= 1, all three streams inheriting,
\* spawn reaches the OS creation call, and when that call succeeds the handle
\* has a positive id different from every other child's that is not reaped.
C2_NonEmptyArgsSpawn ==
    [][(IsCall("spawn") /\ ListedArgs(ret'.opts.args) /\ AllInherit(ret'.opts))
          => /\ "exec" \in ret'.os
             /\ ret'.kind = "value" =>
                  /\ procs'[ret'.h].pid > 0
                  /\ \A j \in 1..MaxProcs :
                        (j # ret'.h /\ Exists(procs'[j]))
                            => procs'[j].pid # procs'[ret'.h].pid]_vars

\* C3: once wait() has returned s on a handle, every later wait() on it
\* returns s, as a value, and is not blocked; a stored status never changes
\* while the handle lives.
C3_WaitIdempotent ==
    [][\A h \in 1..MaxProcs :
          /\ (procs[h].waited # NoStatus /\ Usable(h))
                => ~process_wait_blocks(procs[h])
          /\ (procs[h].waited # NoStatus /\ IsCall("wait") /\ ret'.h = h)
                => (ret'.kind = "value" /\ ret'.int = procs[h].waited)
          /\ (procs[h].status # NoStatus /\ ~procs'[h].gc)
                => procs'[h].status = procs[h].status]_vars

\* A second wait() on an exited handle returned the status of a signal death.
C3_Witness ==
    /\ ret.op = "wait" /\ ret.pre = "Exited"
    /\ ret.kind = "value" /\ ret.int = 15 * 256
    /\ procs[ret.h].waited = ret.int

\* C4: is_running() changes nothing of the handle or the child, and a wait()
\* on an owned handle returns the status the child really ended with.
C4_ProbeKeepsStatus ==
    [][\A h \in 1..MaxProcs :
          /\ (IsCall("is_running") /\ ret'.h = h)
                => /\ ret'.bool = Alive(procs[h])
                   /\ [procs'[h] EXCEPT !.probed = FALSE]
                        = [procs[h] EXCEPT !.probed = FALSE]
          /\ (IsCall("wait") /\ ret'.h = h /\ procs[h].st # "Detached")
                => /\ ret'.kind = "value"
                   /\ ret'.int = procs[h].code
                   /\ Exited(procs[h])]_vars

\* wait() returned the real status after is_running() had seen the zombie.
C4_Witness ==
    /\ ret.op = "wait" /\ ret.kind = "value"
    /\ procs[ret.h].probed
    /\ ret.pre = "Running"
    /\ ret.int = procs[ret.h].code

\* C5: a child spawned with suspended = true has not executed and is still
\* suspended as long as resume() has not been called on its handle, and
\* is_running() then reports it running.
C5_SuspendedUntilResume ==
    \A h \in 1..MaxProcs :
        (procs[h].susp /\ ~procs[h].resumed)
            => /\ ~procs[h].ran
               /\ procs[h].os = "suspended"
               /\ (ret.op = "is_running" /\ ret.h = h) => ret.bool

\* is_running() was called on a suspended child before any resume().
C5_Witness ==
    /\ ret.op = "is_running" /\ ret.bool
    /\ procs[ret.h].susp /\ ~procs[ret.h].resumed
    /\ procs[ret.h].pending # 0

\* C6: resume() returns true only on a Suspended handle, which it moves to
\* Running; when it returns false the lifecycle state is unchanged; on a
\* handle that is Running, Exited or Detached it returns false.
C6_Resume ==
    [][\A h \in 1..MaxProcs :
          (IsCall("resume") /\ ret'.h = h)
              => /\ ret'.bool
                     => (procs[h].st = "Suspended" /\ procs'[h].st = "Running")
                 /\ ~ret'.bool => procs'[h].st = procs[h].st
                 /\ procs[h].st # "Suspended" => ~ret'.bool]_vars

\* A second resume() on a resumed, running child returned false.
C6_Witness ==
    /\ ret.op = "resume" /\ ~ret.bool
    /\ ret.pre = "Running"
    /\ procs[ret.h].susp /\ procs[ret.h].st = "Running"

\* C7: kill() returns true exactly when the OS still has the process to
\* deliver the signal to; it changes neither the handle's state nor its
\* status nor the OS state of the child; without a signal argument the
\* signal sent is 15.
C7_KillReportsDelivery ==
    [][\A h \in 1..MaxProcs :
          (IsCall("kill") /\ ret'.h = h)
              => /\ ret'.bool = Exists(procs[h])
                 /\ procs'[h].st = procs[h].st
                 /\ procs'[h].status = procs[h].status
                 /\ procs'[h].os = procs[h].os
                 /\ Alive(procs[h]) =>
                      procs'[h].pending = IF ret'.sig = 0 THEN 15 ELSE ret'.sig
                ]_vars

\* kill() without a signal returned true and the child is still running.
C7_Witness ==
    /\ ret.op = "kill" /\ ret.bool /\ ret.sig = 0
    /\ procs[ret.h].os = "running"
    /\ procs[ret.h].st = "Running"
    /\ procs[ret.h].pending = 15

\* C8: a Detached handle stays Detached under every operation, and close/gc
\* on it end without raising.
C8_DetachPermanent ==
    [][\A h \in 1..MaxProcs :
          /\ procs[h].st = "Detached"
                => (procs'[h].st = "Detached" /\ procs'[h].status = NoStatus)
          /\ ((IsCall("close") \/ IsCall("gc")) /\ ret'.h = h)
                => ret'.kind = "none"]_vars

\* wait() was called on a handle that close had detached while the child had
\* already exited.
C8_Witness ==
    /\ ret.op = "wait" /\ ret.pre = "Detached" /\ ret.kind = "nilerr"
    /\ procs[ret.h].st = "Detached"
    /\ Exited(procs[ret.h])

\* The tables of live handles of the udata binding.
LiveTables ==
    {t \in SelTables : \A i \in 1..Len(t) : t[i] # 0 /\ IsLua(t[i])}

\* C9: select over handles of which one has exited is not blocked, whatever
\* the other members do.
C9_SelectReturnsOnExited ==
    \A t \in LiveTables :
        (calls < MaxCalls /\ \E i \in 1..Len(t) : Exited(procs[t[i]]))
            => ENABLED select(t)

\* select returned over two handles, one exited and one still alive.
C9_Witness ==
    /\ ret.op = "select" /\ ret.kind = "value"
    /\ Len(ret.set) = 2
    /\ Exited(procs[ret.set[1]])
    /\ Alive(procs[ret.set[2]])

\* C10: when select returns true, a member of the given set has exited.
C10_SelectTrueMeansExited ==
    (ret.op = "select" /\ ret.kind = "value" /\ ret.bool)
        => \E i \in 1..Len(ret.set) : Exited(procs[ret.set[i]])

\* select returned true for a single handle whose child is an unreaped zombie.
C10_Witness ==
    /\ ret.op = "select" /\ ret.kind = "value" /\ ret.bool
    /\ Len(ret.set) = 1
    /\ procs[ret.set[1]].os = "zombie"

\* C11: select() changes nothing of any handle or child, and once it has
\* returned, wait() on a member that has exited (and is still owned by its
\* handle) is not blocked and returns the status the child ended with.
C11_SelectDoesNotReap ==
    [][/\ IsCall("select") => procs' = procs
       /\ \A i \in 1..Len(ret.set) :
             LET h == ret.set[i] IN
             (/\ ret.op = "select" /\ ret.kind = "value"
              /\ Exited(procs[h]) /\ procs[h].st # "Detached")
                 => /\ ~process_wait_blocks(procs[h])
                    /\ (IsCall("wait") /\ ret'.h = h)
                          => (ret'.kind = "value" /\ ret'.int = procs[h].code)
      ]_vars

\* select returned over two handles, one killed by signal 9 and not yet
\* waited for, the other alive.
C11_Witness ==
    /\ ret.op = "select" /\ ret.kind = "value" /\ ret.bool
    /\ Len(ret.set) = 2
    /\ \E i \in 1..2 :
          /\ procs[ret.set[i]].os = "zombie"
          /\ procs[ret.set[i]].code = 9 * 256
          /\ procs[ret.set[i]].status = NoStatus
    /\ \E i \in 1..2 : Alive(procs[ret.set[i]])

\* The bytes of pipe i written and not yet read.
Unread(pp) == Len(pp.log) - Len(pp.got)

\* C12: peek on the open read end of a pipe returns, as a value, the number
\* of bytes written and not yet read: 0 when nothing was written, N when N
\* bytes were written and none read, 0 when the writer is gone and nothing
\* is left unread.
C12_PeekCountsUnread ==
    [][(IsCall("peek") /\ Readable(ret'.tgt) /\ ~Closed(ret'.tgt))
          => LET pp == pipes[ret'.tgt.i] IN
             /\ ret'.kind = "value"
             /\ ret'.int = Unread(pp)
             /\ pp.log = <<>> => ret'.int = 0
             /\ pp.got = <<>> => ret'.int = Len(pp.log)
             /\ (pp.wr = {} /\ pp.got = pp.log) => ret'.int = 0]_vars

\* peek returned 0 on a pipe whose writer is gone after all of its bytes
\* were written and read.
C12_Witness ==
    /\ ret.op = "peek" /\ ret.kind = "value" /\ ret.int = 0
    /\ Readable(ret.tgt)
    /\ pipes[ret.tgt.i].wr = {}
    /\ Len(pipes[ret.tgt.i].log) = MaxBytes
    /\ pipes[ret.tgt.i].got = pipes[ret.tgt.i].log

\* C13: peek changes nothing of any pipe; two peeks of one open stream with
\* no read or write in between return the same count; the bytes read so far
\* followed by the buffered ones are the bytes written, in order, and a read
\* returns the head of the buffer.
C13_PeekKeepsContents ==
    [][/\ IsCall("peek") =>
             \A i \in 1..Len(pipes) :
                 [pipes'[i] EXCEPT !.peeked = FALSE]
                     = [pipes[i] EXCEPT !.peeked = FALSE]
       /\ (IsCall("peek") /\ ret.op = "peek" /\ ret'.tgt = ret.tgt
              /\ ~Closed(ret.tgt)
              /\ ret.kind = "value" /\ ret'.kind = "value")
             => ret'.int = ret.int
       /\ \A i \in 1..Len(pipes') :
             pipes'[i].got \o pipes'[i].buf = pipes'[i].log
       /\ (IsCall("read") /\ ret'.kind = "value")
             => /\ ret'.set = SubSeq(pipes[ret'.tgt.i].buf, 1, Len(ret'.set))
                /\ ret'.set # <<>>]_vars

\* A read after a peek returned, in order, every byte written.
C13_Witness ==
    /\ ret.op = "read" /\ ret.kind = "value"
    /\ pipes[ret.tgt.i].peeked
    /\ Len(ret.set) = MaxBytes
    /\ ret.set = pipes[ret.tgt.i].log

\* C14: peek on a stream that is closed or is no readable pipe returns nil
\* and a message, and no peek returns a negative count.
C14_PeekErrorsAsValues ==
    [][IsCall("peek") =>
          /\ ret'.kind = "value" => ret'.int >= 0
          /\ (ret'.tgt.k # "udata"
                 /\ (Closed(ret'.tgt) \/ ~Readable(ret'.tgt)))
                => ret'.kind = "nilerr"]_vars

\* C15: the environment of a spawned child is, for every name: the given
\* value when the env option sets the name, no value when it deletes the
\* name, and otherwise what the parent has for the name at the spawn.
C15_ChildEnvironment ==
    [][(IsCall("spawn") /\ ret'.kind = "value")
          => \A n \in Names :
               LET e == ret'.opts.env
                   c == procs'[ret'.h].env IN
               /\ (e.tbl /\ e.kv[n] \in Values) => c[n] = e.kv[n]
               /\ (e.tbl /\ e.kv[n] = "false") => c[n] = Absent
               /\ (~e.tbl \/ e.kv[n] = "none") => c[n] = env[n]]_vars

\* A child was spawned with FOO set and BAZ deleted while the parent has BAZ
\* and has itself set FOO to another value.
C15_Witness ==
    /\ ret.op = "spawn" /\ ret.kind = "value"
    /\ ret.opts.env.tbl
    /\ ret.opts.env.kv["FOO"] = "b" /\ ret.opts.env.kv["BAZ"] = "false"
    /\ env["BAZ"] = "a" /\ env["FOO"] = "a"
    /\ procs[ret.h].env = [n \in Names |-> IF n = "FOO" THEN "b" ELSE Absent]

\* C16: spawn leaves the parent's environment as it is; a setenv changes the
\* parent's environment only, never that of a child already spawned; a name
\* the env option does not mention has in the child the value the parent has
\* at the spawn call, earlier setenv calls included.
C16_EnvironmentSnapshot ==
    [][/\ IsCall("spawn") => env' = env
       /\ IsCall("setenv") =>
             \A k \in 1..MaxProcs : procs'[k].env = procs[k].env
       /\ (IsCall("setenv") /\ ret'.kind = "nilerr") => env' = env
       /\ (IsCall("spawn") /\ ret'.kind = "value") =>
             \A n \in Names :
                 (~ret'.opts.env.tbl \/ ret'.opts.env.kv[n] = "none")
                     => procs'[ret'.h].env[n] = env[n]]_vars

\* A child spawned without env option after setenv FOO=b has FOO=b, and the
\* parent has since set FOO to a.
C16_Witness ==
    /\ ret.op = "setenv" /\ ret.kind = "value"
    /\ env["FOO"] = "a"
    /\ \E k \in 1..MaxProcs :
          /\ Exists(procs[k])
          /\ ~procs[k].envopt.tbl
          /\ procs[k].env["FOO"] = "b"

\* What a stream of the child is bound to: the handle it was redirected to,
\* or the parent's own stream of that name.
EffDest(p, name) ==
    IF Valid(p.dest[name]) THEN p.dest[name]
    ELSE [k |-> "inherit", slot |-> name]

\* The ends of pipes the parent holds open.
ParentHandles(ps) ==
    Cardinality({i \in 1..Len(ps) : "parent" \in ps[i].rd})
        + Cardinality({i \in 1..Len(ps) : "parent" \in ps[i].wr})

\* C17: after a spawn with stderr = "stdout", the child's stderr is bound to
\* what its stdout is bound to, however stdout was configured.
C17_StderrAliasesStdout ==
    [][(IsCall("spawn") /\ ret'.api = "lua" /\ ret'.kind = "value"
          /\ ret'.opts.stderr = "stdout")
          => EffDest(procs'[ret'.h], "stderr")
                 = EffDest(procs'[ret'.h], "stdout")]_vars

\* C18: when the creation call fails, spawn returns nil and a message, no
\* child is added, and the parent holds as many open pipe ends as before.
C18_FailedSpawnRollsBack ==
    [][(IsCall("spawn") /\ ret'.api = "lua"
          /\ "exec" \in ret'.os /\ ret'.kind # "value")
          => /\ ret'.kind = "nilerr"
             /\ procs' = procs
             /\ ParentHandles(pipes') = ParentHandles(pipes)]_vars

\* The holders of the end of a pipe that is bound to the child.
ChildSide(pp) == IF pp.slot = "stdin" THEN pp.rd ELSE pp.wr

\* C19: after a successful spawn the parent holds no copy of the child's end
\* of any pipe opened by it, and never gets one later; so when the child has
\* closed its end of an output pipe, a read on the parent's open end is not
\* blocked, and it reports end-of-file exactly when no written byte is left
\* unread.
C19_ParentDropsChildEnd ==
    [][/\ (IsCall("spawn") /\ ret'.kind = "value")
             => \A i \in (Len(pipes) + 1)..Len(pipes') :
                    "parent" \notin ChildSide(pipes'[i])
       /\ \A i \in 1..Len(pipes) :
             "parent" \notin ChildSide(pipes[i])
                 => "parent" \notin ChildSide(pipes'[i])
       /\ \A i \in 1..Len(pipes) :
             (/\ pipes[i].slot # "stdin" /\ "child" \notin pipes[i].wr
              /\ "parent" \in pipes[i].rd /\ pipes[i].file
              /\ "parent" \notin pipes[i].wr)
                 => /\ ~read_blocks(pipes[i])
                    /\ (IsCall("read") /\ ret'.tgt.i = i)
                          => (ret'.kind = "eof") = (pipes[i].got = pipes[i].log)
      ]_vars

\* A read reported end-of-file on the stdout pipe of a spawned child after
\* the child had written, had closed its end, and all bytes had been read.
C19_Witness ==
    /\ ret.op = "read" /\ ret.kind = "eof"
    /\ pipes[ret.tgt.i].slot = "stdout"
    /\ Len(pipes[ret.tgt.i].log) = MaxBytes
    /\ pipes[ret.tgt.i].got = pipes[ret.tgt.i].log
    /\ pipes[ret.tgt.i].wr = {}
    /\ \E k \in 1..MaxProcs : Exists(procs[k])

\* C20: __close and __gc of a process handle, in whatever state it is, raise
\* nothing and return nothing; they attempt detach, and a failed detach has
\* no effect but a warning carrying the process id; no warning is given when
\* detach succeeds; __gc leaves the handle destroyed, __close leaves it alive;
\* no other handle is touched.
C20_TeardownNeverRaises ==
    [][\A h \in 1..MaxProcs :
          ((IsCall("close") \/ IsCall("gc")) /\ ret'.h = h)
              => /\ ret'.kind = "none"
                 /\ IsCall("gc") => procs'[h].gc
                 /\ IsCall("close") => ~procs'[h].gc
                 /\ \A j \in 1..MaxProcs : j # h => procs'[j] = procs[j]
                 /\ ret'.api = "lua" =>
                       /\ "detach" \in ret'.os
                       /\ ret'.warn = IF ret'.bool THEN 0 ELSE procs[h].pid
                       /\ ~ret'.bool =>
                             /\ procs'[h].st = procs[h].st
                             /\ procs'[h].os = procs[h].os
                             /\ procs'[h].pid = procs[h].pid]_vars

\* The collector finalized a Running handle whose child had already exited
\* unreaped; detach failed, the warning named the child, the handle is gone.
C20_Witness ==
    /\ ret.op = "gc" /\ ret.api = "lua" /\ ret.kind = "none"
    /\ ret.pre = "Running"
    /\ ~ret.bool /\ ret.warn = procs[ret.h].pid /\ ret.warn > 0
    /\ procs[ret.h].gc
    /\ procs[ret.h].os = "zombie"

\* C21: a spawn that ends by raising a configuration error (an argument or
\* a stream binding of an unsupported type) has invoked no OS primitive,
\* opened no pipe and created no child.
C21_ConfigErrorTouchesNothing ==
    [][(IsCall("spawn") /\ ret'.api = "lua" /\ ret'.kind = "raise")
          => /\ ret'.os = {}
             /\ pipes' = pipes
             /\ procs' = procs]_vars

\* The object spawn produces for the caller in a slot: the caller's end of
\* the new pipe, or the caller's own stream.
SlotObject(o, name) ==
    IF o[name] = "true"
    THEN [k |-> IF name = "stdin" THEN "pipe_wr" ELSE "pipe_rd", slot |-> name]
    ELSE [k |-> "file", slot |-> name]

\* C24: after a successful spawn the handle has the field of a slot exactly
\* when that slot's binding resolved to a handle, and the field holds the
\* object made for that slot (for an aliased stderr the object of stdout),
\* also when the pipe or the duplicate of another slot could not be made.
C24_FieldsMatchSlots ==
    [][(IsCall("spawn") /\ ret'.api = "lua" /\ ret'.kind = "value")
          => \A i \in 1..3 :
               LET name == Slots[i]
                   p    == procs'[ret'.h]
                   o    == ret'.opts IN
               /\ (p.fields[name] # NilObj) = Valid(p.dest[name])
               /\ p.fields[name] # NilObj =>
                     p.fields[name] =
                        IF name = "stderr" /\ o.stderr = "stdout"
                        THEN SlotObject(o, "stdout")
                        ELSE SlotObject(o, name)]_vars

\* C22: the ends of a pipe are held by the parent and by the child the pipe
\* was bound to, by nobody else; a later spawn changes the holders of no
\* existing pipe; so once the bound child has closed its end of an output
\* pipe, a read on the parent's end is not blocked, whichever other children
\* are alive.
C22_NoInheritedEndpoints ==
    [][/\ \A i \in 1..Len(pipes') :
             (pipes'[i].rd \cup pipes'[i].wr) \subseteq {"parent", "child"}
       /\ IsCall("spawn") =>
             \A i \in 1..Len(pipes) : pipes'[i] = pipes[i]
       /\ \A i \in 1..Len(pipes) :
             (/\ pipes[i].slot # "stdin" /\ pipes[i].file
              /\ "parent" \in pipes[i].rd
              /\ "parent" \notin pipes[i].wr /\ "child" \notin pipes[i].wr)
                 => ~read_blocks(pipes[i])]_vars

\* A read reported end-of-file on the first child's stdout pipe while a
\* second child, spawned later with every stream inheriting, is alive.
C22_Witness ==
    /\ ret.op = "read" /\ ret.kind = "eof" /\ ret.tgt.i = 1
    /\ Valid(procs[1].dest.stdout)
    /\ Alive(procs[2])
    /\ procs[2].dest = NoDest

C25_OneActionPerEntry ==
    [][(IsCall("spawn") /\ ret'.opts.env.tbl)
          => /\ ret'.kind = "value"
             /\ env' = env
             /\ \A n \in Names :
                   LET v == ret'.opts.env.kv[n] IN
                   procs'[ret'.h].env[n] =
                      IF v \in Values THEN v
                      ELSE IF v = "none" THEN env[n]
                      ELSE Absent]_vars

\* C26: the result of pipe::open tests true exactly when the pipe was
\* created, for every pair of descriptors a created pipe can have,
\* descriptor 0 included.
C26_OpenResultTruth ==
    [][IsCall("open") => (ret'.bool <=> "pipe" \in ret'.os)]_vars

====
